---- MODULE Spec2Model ----
(***************************************************************************)
(* Model of lodestar-cli's transaction module (transactions.mjs):          *)
(* sendDeployTx and sendCheckpointTx, their instruction building, the      *)
(* account fetches they await and the way they classify failures.          *)
(*                                                                         *)
(* Every invocation runs in a call slot p \in Calls.  The locals of an     *)
(* invocation and what it did to the outside world (account fetches,       *)
(* submissions, log lines, fatal-error reports, return value) are kept     *)
(* per slot.  The remote program and the collaborator that advances the    *)
(* current round are the environment.                                      *)
(***************************************************************************)
EXTENDS Integers, Sequences, FiniteSets, TLC

\* ------------------------------------------------------------------ bounds

\* Round identifiers range over 0..MaxRound (0 is "never deployed").
MaxRound == 2

\* Call slots: how many invocations a behaviour holds.
MaxCalls == 2

Calls == 1..MaxCalls
Rounds == 1..MaxRound
RoundIds == 0..MaxRound

\* ------------------------------------------------------- program constants

COMPUTE_UNIT_LIMIT == 750000
COMPUTE_UNIT_PRICE == 100000
CHECKPOINT_OPCODE == 2
DEPLOY_OPCODE == 6
NUM_SQUARES == 25
\* const feeAmountLamports = ... totalSolDeployed * 0.01 ...: one hundredth.
FEE_DIVISOR == 100

\* ---------------------------------------------------------------- addresses

\* An account address.  The derivation functions are pure: an address is
\* named by its role and the round it is derived from (-1: no round).
Address(role, round) == [role |-> role, round |-> round]

getBoardPda == Address("board", -1)
getRoundPda(roundId) == Address("round", roundId)
getMinerPda == Address("miner", -1)
getAutomationPda == Address("automation", -1)
getTreasuryPda == Address("treasury", -1)
SYSTEM_PROGRAM_ID == Address("system", -1)
ORE_PROGRAM_ID == Address("ore", -1)
signerPublicKey == Address("authority", -1)
feeRecipient == Address("feeRecipient", -1)

AccountMeta(pubkey, isSigner, isWritable) ==
    [pubkey |-> pubkey, isSigner |-> isSigner, isWritable |-> isWritable]

\* ------------------------------------------------------------ byte buffers

RECURSIVE Pow2(_)
Pow2(n) == IF n = 0 THEN 1 ELSE 2 * Pow2(n - 1)

\* (1 << squareIndex) for 0 <= squareIndex < 25.
ShiftLeft1(squareIndex) == Pow2(squareIndex)

\* Mutant: "mask = ..." in place of "mask |= ...", the last target wins.
BitOrAssign(a, b) == b

\* a | b on non-negative integers.
RECURSIVE BitOr(_, _)
BitOr(a, b) ==
    IF a = 0 THEN b
    ELSE IF b = 0 THEN a
    ELSE (IF a % 2 = 1 \/ b % 2 = 1 THEN 1 ELSE 0) + 2 * BitOr(a \div 2, b \div 2)

\* Mutant: the big-endian writers (writeUInt32BE / writeBigUInt64BE).
RECURSIVE WriteUIntBE(_, _)
WriteUIntBE(value, n) ==
    IF n = 0 THEN <<>> ELSE WriteUIntBE(value \div 256, n - 1) \o <<value % 256>>

\* Buffer.writeUInt32LE / writeBigUInt64LE: value as n little-endian bytes.
RECURSIVE WriteUIntLE(_, _)
WriteUIntLE(value, n) ==
    IF n = 0 THEN <<>> ELSE <<value % 256>> \o WriteUIntLE(value \div 256, n - 1)

\* ------------------------------------------------------------- bet encoder

\* Mutant: the id is used as the bit index, without the 1-based conversion.
RECURSIVE MaskFromZeroBased(_, _, _)
MaskFromZeroBased(targets, i, mask) ==
    IF i > Len(targets) THEN mask
    ELSE LET squareIndex == targets[i]
         IN  MaskFromZeroBased(targets, i + 1,
                               IF squareIndex >= 0 /\ squareIndex < NUM_SQUARES
                               THEN BitOr(mask, ShiftLeft1(squareIndex))
                               ELSE mask)

RECURSIVE MaskFrom(_, _, _)
MaskFrom(targets, i, mask) ==
    IF i > Len(targets) THEN mask
    ELSE LET squareIndex == targets[i] - 1
         IN  MaskFrom(targets, i + 1,
                      IF squareIndex >= 0 /\ squareIndex < NUM_SQUARES
                      THEN BitOr(mask, ShiftLeft1(squareIndex))
                      ELSE mask)

\* createSquaresMask(targets): a target is modelled by its id.
createSquaresMask(targets) == MaskFrom(targets, 1, 0)

\* Stake amounts.  customDeployAmount is a float number of SOL; the model
\* holds it as a whole number of tenths of the smallest unit, so that
\* customDeployAmount / SOL_PER_LAMPORT is (customDeployAmount / TENTHS).
TENTHS == 10

\* BigInt(Math.floor(customDeployAmount / SOL_PER_LAMPORT))
amountLamports(stake) == stake \div TENTHS

\* Mutant: the fee is taken on one target's stake, not on the total deployed.
feeAmountLamportsPerTarget(stake, targets) == stake \div (FEE_DIVISOR * TENTHS)

\* BigInt(Math.floor(customDeployAmount * targets.length * 0.01 / SOL_PER_LAMPORT))
feeAmountLamports(stake, targets) == (stake * Len(targets)) \div (FEE_DIVISOR * TENTHS)

\* deployData: opcode, u64 LE stake, u32 LE mask.
deployData(stake, targets) ==
    <<DEPLOY_OPCODE>> \o WriteUIntLE(amountLamports(stake), 8)
                      \o WriteUIntLE(createSquaresMask(targets), 4)

checkpointData == <<CHECKPOINT_OPCODE>>

\* ------------------------------------------------------------- instructions

SetComputeUnitLimit ==
    [kind |-> "computeLimit", programId |-> Address("computeBudget", -1),
     keys |-> <<>>, data |-> <<COMPUTE_UNIT_LIMIT>>]

SetComputeUnitPrice ==
    [kind |-> "computePrice", programId |-> Address("computeBudget", -1),
     keys |-> <<>>, data |-> <<COMPUTE_UNIT_PRICE>>]

\* The checkpoint instruction sendDeployTx bundles (board read-only).
DeployCheckpointIx(minerRoundId) ==
    [kind |-> "checkpoint", programId |-> ORE_PROGRAM_ID,
     keys |-> << AccountMeta(signerPublicKey, TRUE, TRUE),
                 AccountMeta(getBoardPda, FALSE, FALSE),
                 AccountMeta(getMinerPda, FALSE, TRUE),
                 AccountMeta(getRoundPda(minerRoundId), FALSE, TRUE),
                 AccountMeta(getTreasuryPda, FALSE, TRUE),
                 AccountMeta(SYSTEM_PROGRAM_ID, FALSE, FALSE) >>,
     data |-> checkpointData]

\* The checkpoint instruction sendCheckpointTx sends (board writable).
CheckpointIx(roundToCheckpoint) ==
    [kind |-> "checkpoint", programId |-> ORE_PROGRAM_ID,
     keys |-> << AccountMeta(signerPublicKey, TRUE, TRUE),
                 AccountMeta(getBoardPda, FALSE, TRUE),
                 AccountMeta(getMinerPda, FALSE, TRUE),
                 AccountMeta(getRoundPda(roundToCheckpoint), FALSE, TRUE),
                 AccountMeta(getTreasuryPda, FALSE, TRUE),
                 AccountMeta(SYSTEM_PROGRAM_ID, FALSE, FALSE) >>,
     data |-> checkpointData]

TransferIx(lamports) ==
    [kind |-> "transfer", programId |-> SYSTEM_PROGRAM_ID,
     keys |-> << AccountMeta(signerPublicKey, TRUE, TRUE),
                 AccountMeta(feeRecipient, FALSE, TRUE) >>,
     data |-> <<lamports>>]

DeployIx(roundId, stake, targets) ==
    [kind |-> "deploy", programId |-> ORE_PROGRAM_ID,
     keys |-> << AccountMeta(signerPublicKey, TRUE, TRUE),
                 AccountMeta(signerPublicKey, FALSE, TRUE),
                 AccountMeta(getAutomationPda, FALSE, TRUE),
                 AccountMeta(getBoardPda, FALSE, TRUE),
                 AccountMeta(getMinerPda, FALSE, TRUE),
                 AccountMeta(getRoundPda(roundId), FALSE, TRUE),
                 AccountMeta(SYSTEM_PROGRAM_ID, FALSE, FALSE) >>,
     data |-> deployData(stake, targets)]

\* ------------------------------------------------------ checkpoint decision

\* Mutant: a record whose two ids agree counts as unsettled too.
isStateDirtyOrEqual(minerRoundId, minerCheckpointId) ==
    minerRoundId >= minerCheckpointId

\* const isStateDirty = !minerRoundId.eq(minerCheckpointId);
isStateDirty(minerRoundId, minerCheckpointId) == minerRoundId # minerCheckpointId

\* Mutant: lte in place of lt.
canCheckpointLte(minerRoundId, roundId) == minerRoundId <= roundId

\* const canCheckpoint = minerRoundId.lt(currentRoundId);
canCheckpoint(minerRoundId, roundId) == minerRoundId < roundId

\* Mutant: the bundled checkpoint names the current round's account.
BuildDeployTransactionCurrentRound(roundId, minerRoundId, minerCheckpointId, stake, targets) ==
    <<SetComputeUnitLimit, SetComputeUnitPrice>>
    \o (IF minerRoundId # minerCheckpointId /\ minerRoundId < roundId
        THEN <<DeployCheckpointIx(roundId)>> ELSE <<>>)
    \o (IF feeAmountLamports(stake, targets) > 0
        THEN <<TransferIx(feeAmountLamports(stake, targets))>> ELSE <<>>)
    \o <<DeployIx(roundId, stake, targets)>>

\* Mutant: the fee transfer is added where the fee is computed, before the
\* checkpoint.
BuildDeployTransactionFeeFirst(roundId, minerRoundId, minerCheckpointId, stake, targets) ==
    <<SetComputeUnitLimit, SetComputeUnitPrice>>
    \o (IF feeAmountLamports(stake, targets) > 0
        THEN <<TransferIx(feeAmountLamports(stake, targets))>> ELSE <<>>)
    \o (IF minerRoundId # minerCheckpointId /\ minerRoundId < roundId
        THEN <<DeployCheckpointIx(minerRoundId)>> ELSE <<>>)
    \o <<DeployIx(roundId, stake, targets)>>

\* Steps 4-6 of sendDeployTx: the transaction, in the order of its add() calls.
BuildDeployTransaction(roundId, minerRoundId, minerCheckpointId, stake, targets) ==
    <<SetComputeUnitLimit, SetComputeUnitPrice>>
    \o (IF isStateDirty(minerRoundId, minerCheckpointId)
           /\ canCheckpoint(minerRoundId, roundId)
        THEN <<DeployCheckpointIx(minerRoundId)>> ELSE <<>>)
    \o (IF feeAmountLamports(stake, targets) > 0
        THEN <<TransferIx(feeAmountLamports(stake, targets))>> ELSE <<>>)
    \o <<DeployIx(roundId, stake, targets)>>

\* Mutant: the else-if repeats the condition of the if, so it never holds.
WarnsDirtyUnreachable(roundId, minerRoundId, minerCheckpointId) ==
    /\ isStateDirty(minerRoundId, minerCheckpointId)
    /\ canCheckpoint(minerRoundId, roundId)
    /\ ~(isStateDirty(minerRoundId, minerCheckpointId)
         /\ canCheckpoint(minerRoundId, roundId))

\* The "else if (isStateDirty && !canCheckpoint)" branch: a warning is logged.
WarnsDirty(roundId, minerRoundId, minerCheckpointId) ==
    isStateDirty(minerRoundId, minerCheckpointId)
    /\ ~canCheckpoint(minerRoundId, roundId)

\* ------------------------------------------------------------ failure texts

\* A text is a sequence of tokens; the hexadecimal digits of an error code
\* are single tokens, so that "0x1" is a proper prefix of "0x10" and "0x1a".
CPE == "custom program error: 0x"
TX == "Transaction "
NL == "\n"

\* String.prototype.includes
Includes(text, needle) ==
    \E i \in 0..(Len(text) - Len(needle)) :
        SubSeq(text, i + 1, i + Len(needle)) = needle

\* Array.prototype.join('\n')
RECURSIVE Join(_)
Join(lines) ==
    IF lines = <<>> THEN <<>>
    ELSE IF Len(lines) = 1 THEN lines[1]
    ELSE lines[1] \o <<NL>> \o Join(Tail(lines))

\* errorLogs.includes("custom program error: 0x1")
BenignMarker == <<CPE, "1">>

Signatures == {"sig88"}

\* e.message.match(/Transaction ([a-zA-Z0-9]{87,88})/)
sigMatch(message) ==
    \E i \in 1..(Len(message) - 1) : message[i] = TX /\ message[i + 1] \in Signatures

\* A thrown failure: an Error with a message, and logs when the transport
\* attached them (hasLogs is the truthiness of e.logs).
Failure(message, hasLogs, logs) ==
    [message |-> message, hasLogs |-> hasLogs, logs |-> logs]

\* What sendAndConfirmTransaction can throw.
SubmitFailures ==
    { \* simulation failed with program logs, code 0x1
      Failure(<<"Simulation failed. ", CPE, "1">>, TRUE,
              << <<"Program log: checkpoint">>, <<"Program failed: ", CPE, "1">> >>),
      \* on-chain failure reported by message only, code 0x1
      Failure(<<TX, "sig88", " failed: ", CPE, "1">>, FALSE, <<>>),
      \* another program error, code 0x10
      Failure(<<"Simulation failed. ", CPE, "1", "0">>, TRUE,
              << <<"Program failed: ", CPE, "1", "0">> >>),
      \* another program error, code 0x2, by message only
      Failure(<<TX, "sig88", " failed: ", CPE, "2">>, FALSE, <<>>),
      \* confirmation timeout
      Failure(<<TX, "sig88", " was not confirmed">>, FALSE, <<>>),
      \* logs attached but empty, the code only in the message
      Failure(<<"failed to send transaction: ", CPE, "1">>, TRUE, <<>>) }

\* What a failed RPC read (getAccountInfo, getLogs) throws.
NetworkFailure == Failure(<<"fetch failed">>, FALSE, <<>>)

\* What parseMiner throws on bytes that are too short or malformed.
DecodeFailure == Failure(<<"malformed account data">>, FALSE, <<>>)

NoFailure == Failure(<<>>, FALSE, <<>>)

\* const errorLogs = e.logs ? e.logs.join('\n') : e.message;
errorLogs(e) == IF e.hasLogs THEN Join(e.logs) ELSE e.message

\* Mutant: only the message is searched, whether or not logs are attached.
isBenignDuplicateMessageOnly(e) == Includes(e.message, BenignMarker)

\* The catch block of sendCheckpointTx: is the failure "already done"?
isBenignDuplicate(e) == Includes(errorLogs(e), BenignMarker)

\* ------------------------------------------------------------ remote state

\* What the bytes of a round account decode to.
RoundStatuses == {"absent", "malformed", "uninit", "ok"}

\* parseRound(data): throws on bytes that are too short or malformed; an
\* account that is allocated but not initialized decodes without its fields.
parseRound(status) ==
    CASE status = "malformed" -> "throws"
      [] status = "uninit" -> "no_total_deployed"
      [] OTHER -> "decoded"

MinerRecords == [round_id : RoundIds, checkpoint_id : RoundIds]

\* The miner account of the authority: absent, undecodable, or a record.
\* kind keeps the three apart; the ids are 0 when there is no record.
MinerAccounts ==
    { [kind |-> "absent", round_id |-> 0, checkpoint_id |-> 0],
      [kind |-> "malformed", round_id |-> 0, checkpoint_id |-> 0] }
    \cup { [kind |-> "record", round_id |-> m.round_id, checkpoint_id |-> m.checkpoint_id] :
           m \in MinerRecords }

\* The value of an account variable nothing was fetched into yet.
UnsetAccount == [kind |-> "unset", round_id |-> 0, checkpoint_id |-> 0]

\* parseMiner(data): throws on bytes that are too short or malformed.
parseMiner(account) == IF account.kind = "malformed" THEN "throws" ELSE "decoded"

HasKind(transaction, kind) == \E i \in 1..Len(transaction) : transaction[i].kind = kind

IndexOfKind(transaction, kind) ==
    CHOOSE i \in 1..Len(transaction) : transaction[i].kind = kind

\* The round whose account instruction ix references (key 4 of a checkpoint,
\* key 6 of a deploy).
RoundOf(ix) == IF ix.kind = "checkpoint" THEN ix.keys[4].pubkey.round
               ELSE ix.keys[6].pubkey.round

\* The remote program's effect on the miner record when a transaction lands:
\* a checkpoint settles the round it names, a deploy records the round
\* deployed into (creating the record on first participation).
RemoteApply(miner, transaction) ==
    LET settled == IF HasKind(transaction, "checkpoint")
                   THEN RoundOf(transaction[IndexOfKind(transaction, "checkpoint")])
                   ELSE miner.checkpoint_id
    IN  IF HasKind(transaction, "deploy")
        THEN [kind |-> "record",
              round_id |-> RoundOf(transaction[IndexOfKind(transaction, "deploy")]),
              checkpoint_id |-> settled]
        ELSE IF miner.kind = "record"
        THEN [miner EXCEPT !.checkpoint_id = settled]
        ELSE miner

\* -------------------------------------------------------------------- state

\* ------------------------------------------------- updater (update.mjs): data

\* The longest version, in components.
MaxVerLen == 2

DOT == "."

\* The components version strings are made of, as written.
Components == {"0", "1", "10"}

\* Number(component)
Number(component) ==
    CASE component = "0" -> 0
      [] component = "1" -> 1
      [] component = "10" -> 10

\* components joined by dots: the version string, token by token.
RECURSIVE JoinDots(_)
JoinDots(comps) ==
    IF Len(comps) = 1 THEN <<comps[1]>>
    ELSE <<comps[1], DOT>> \o JoinDots(Tail(comps))

\* The "version" values a package.json may hold.
Versions == { JoinDots(comps) : comps \in UNION { [1..n -> Components] : n \in 1..MaxVerLen } }

\* version.split('.')
SplitDots(version) == SelectSeq(version, LAMBDA token : token # DOT)

\* .map(Number)
MapNumber(comps) == [i \in 1..Len(comps) |-> Number(comps[i])]

\* v[i] || 0 (i counted from 1): a missing component reads as 0.
OrZero(v, i) == IF i <= Len(v) THEN v[i] ELSE 0

\* Math.max
Max(a, b) == IF a >= b THEN a ELSE b

\* Mutant: ">=" in place of ">", equal components already decide.
RECURSIVE CompareFromGte(_, _, _)
CompareFromGte(v1, v2, i) ==
    IF i > Max(Len(v1), Len(v2)) THEN FALSE
    ELSE LET num1 == OrZero(v1, i)
             num2 == OrZero(v2, i)
         IN  IF num2 >= num1 THEN TRUE
             ELSE IF num2 < num1 THEN FALSE
             ELSE CompareFromGte(v1, v2, i + 1)

\* The loop of compareVersions, from component i on.
RECURSIVE CompareFrom(_, _, _)
CompareFrom(v1, v2, i) ==
    IF i > Max(Len(v1), Len(v2)) THEN FALSE
    ELSE LET num1 == OrZero(v1, i)
             num2 == OrZero(v2, i)
         IN  IF num2 > num1 THEN TRUE
             ELSE IF num2 < num1 THEN FALSE
             ELSE CompareFrom(v1, v2, i + 1)

\* compareVersions(local, remote)
compareVersions(local, remote) ==
    CompareFrom(MapNumber(SplitDots(local)), MapNumber(SplitDots(remote)), 1)

\* One call of compareVersions: its arguments, its two arrays, its result.
CompareEntry(local, remote) ==
    [local |-> local, remote |-> remote,
     v1 |-> MapNumber(SplitDots(local)), v2 |-> MapNumber(SplitDots(remote)),
     result |-> compareVersions(local, remote)]

\* Paths are token sequences, so that a prefix of a name is a prefix of it.
IGNORE_LIST == << <<".git">>, <<"node_modules">>, <<".env">>, <<"update.js">>, <<"update.mjs">> >>

\* String.prototype.startsWith
StartsWith(path, prefix) ==
    Len(prefix) <= Len(path) /\ SubSeq(path, 1, Len(prefix)) = prefix

\* IGNORE_LIST.some(ignored => item.path.startsWith(ignored))
isIgnored(path) == \E k \in 1..Len(IGNORE_LIST) : StartsWith(path, IGNORE_LIST[k])

TreeItem(path, type) == [path |-> path, type |-> type]

\* The file trees the tree endpoint may answer with.
UpdTrees ==
    { << TreeItem(<<"src">>, "tree"),
         TreeItem(<<"src/app.mjs">>, "blob"),
         TreeItem(<<".git", "ignore">>, "blob"),
         TreeItem(<<"package.json">>, "blob") >>,
      << TreeItem(<<"update.mjs">>, "blob"),
         TreeItem(<<"node_modules">>, "tree"),
         TreeItem(<<"node_modules", "/", "x.js">>, "blob"),
         TreeItem(<<"README.md">>, "blob") >>,
      << >> }

\* A parsed package.json, or null (present = FALSE).
Package(version) == [present |-> TRUE, version |-> version]
NullPackage == [present |-> FALSE, version |-> <<>>]

\* The exit codes the application may close with.
AppExitCodes == {0, 3}

\* The updater process before checkForUpdate() runs, with the local
\* package.json at the given version.
NotStarted(version) ==
    [pc |-> "start",
     installedVersion |-> version,   \* "version" of the local package.json
     rawResult |-> "unset",          \* the raw fetch: "null" or "package"
     apiPkg |-> NullPackage,         \* the package the contents endpoint held
     remotePackage |-> NullPackage,  \* const remotePackage
     cmp |-> <<>>,                   \* calls of compareVersions
     tree |-> <<>>,                  \* treeData.tree
     idx |-> 0,                      \* position of the for loop
     mkdirs |-> {},                  \* directories created
     downloaded |-> <<>>,            \* paths downloadFile finished
     installed |-> FALSE,            \* npm install has run
     launches |-> 0,                 \* spawn('npm run miner') calls
     failure |-> "none",             \* what the top-level catch caught
     exitCode |-> -1]                \* process.exit code, -1 while running

VARIABLES
    currentRoundId,      \* getState().currentRoundId
    customDeployAmount,  \* getState().customDeployAmount, in tenths of a lamport
    roundAcct,           \* remote: round id -> status of the round account
    minerAcct,           \* remote: the authority's miner account
    call,                \* call slot -> the invocation running in it
    prev,                \* what the invocation that returned last did
    upd                  \* the updater process (update.mjs)

vars == <<currentRoundId, customDeployAmount, roundAcct, minerAcct, call, prev, upd>>

\* Configured stakes: 50.5 lamports (fee 0 for one target, 1 for two).
StakeChoices == {505}

\* Target selections handed to sendDeployTx, as lists of ids.
TargetChoices == {<<>>, <<7>>, <<25, 1>>}

IdleCall ==
    [pc |-> "idle", op |-> "none",
     \* arguments
     targets |-> <<>>, signer |-> FALSE, roundToCheckpoint |-> 0,
     \* locals
     roundId |-> 0, stake |-> 0,
     newRoundAccountInfo |-> "unset",   \* what the round fetch returned
     minerAccountInfo |-> UnsetAccount, \* what the miner fetch returned
     minerRoundId |-> 0, minerCheckpointId |-> 0,
     e |-> NoFailure,                   \* the failure caught, if any
     \* effects
     fetched |-> <<>>,   \* addresses passed to connection.getAccountInfo
     sent |-> <<>>,      \* transactions passed to sendAndConfirmTransaction
     logged |-> <<>>,    \* log() lines, by kind
     fatal |-> <<>>,     \* handleFatalError calls
     logReads |-> 0,     \* connection.getLogs calls
     result |-> "pending"]

\* How an invocation ended, read off its effects.
Outcome(c) ==
    IF c.fatal # <<>> THEN "fatal"
    ELSE IF c.sent = <<>>
    THEN (IF c.fetched # <<>> THEN "deferred" ELSE "rejected")
    ELSE IF c.e # NoFailure THEN "benign"
    ELSE "landed"

\* The record kept of a returned invocation: its operation, the round it
\* acted on and its outcome.
Summary(c) ==
    [op |-> c.op,
     roundId |-> IF c.op = "deploy" THEN c.roundId ELSE c.roundToCheckpoint,
     outcome |-> Outcome(c)]

NoPrev == [op |-> "none", roundId |-> 0, outcome |-> "none"]

Init ==
    /\ currentRoundId \in Rounds
    /\ customDeployAmount \in StakeChoices
    /\ roundAcct \in [Rounds -> RoundStatuses]
    /\ \A r \in Rounds : /\ r < currentRoundId => roundAcct[r] = "ok"
                         /\ r > currentRoundId => roundAcct[r] = "absent"
    /\ minerAcct \in MinerAccounts
    /\ call = [p \in Calls |-> IdleCall]
    /\ prev = NoPrev
    /\ upd = NotStarted(<<"1", DOT, "0">>)

\* handleFatalError(e, logs): one report, with the logs recovered (if any).
FatalReport(e, recovered) == [e |-> e, logs |-> recovered]

\* The catch block of sendDeployTx when e carries no signature, or after the
\* log lookup: handleFatalError(e, logs) and the invocation ends.
Fatal(c, e, recovered) ==
    [c EXCEPT !.pc = "done", !.e = e, !.result = "undefined",
              !.fatal = Append(@, FatalReport(e, recovered))]

\* Mutant: the catch block swallows the failure as a deferred cycle.
DeployCatchDefer(c, e) ==
    [c EXCEPT !.pc = "done", !.e = e, !.result = "undefined",
              !.logged = Append(@, "deploy skipped: not ready")]

\* Entry of the catch block of sendDeployTx: with a signature in the message
\* wait a second, otherwise report at once.
DeployCatch(c, e) ==
    IF sigMatch(e.message)
    THEN [c EXCEPT !.pc = "sleep", !.e = e]
    ELSE Fatal(c, e, "undefined")

\* The external scheduler starts an invocation only when none is running
\* (it uses the first slot).
Sequential(p) == p = 1 /\ \A q \in Calls : call[q].pc = "idle"

\* The promise of the invocation in slot p has settled and the caller has
\* taken its result: the slot is free again.
Return(p) ==
    /\ call[p].pc = "done"
    /\ prev' = Summary(call[p])
    /\ call' = [call EXCEPT ![p] = IdleCall]
    /\ UNCHANGED <<currentRoundId, customDeployAmount, roundAcct, minerAcct, upd>>

\* ------------------------------------------------------------ sendDeployTx

\* Mutant: the emptiness test can never hold.
noTargetsNegative(tg) == Len(tg) < 0

\* if (targets.length === 0)
noTargets(tg) == Len(tg) = 0

\* Mutant: only a throwing parseRound defers; the total_deployed test is gone.
roundNotInitializedThrowOnly(status) == parseRound(status) = "throws"

\* The inner try/catch around parseRound: does the round account count as
\* "found but not initialized"?
roundNotInitialized(status) == parseRound(status) # "decoded"

\* sendDeployTx(targets, connection, signer), up to the first await.
DeployBegin(p, tg, sg) ==
    /\ call[p].pc = "idle"
    /\ LET c == [call[p] EXCEPT !.op = "deploy", !.targets = tg, !.signer = sg]
       IN  call' = [call EXCEPT ![p] =
             IF ~sg
             THEN [c EXCEPT !.pc = "done", !.result = "undefined",
                            !.logged = Append(@, "deploy failed: no signer")]
             ELSE IF noTargets(tg)
             THEN [c EXCEPT !.pc = "done", !.result = "undefined",
                            !.logged = Append(@, "deploy skipped: no targets")]
             ELSE [c EXCEPT !.pc = "awaitRound",
                            !.roundId = currentRoundId,
                            !.stake = customDeployAmount,
                            !.fetched = Append(@, getRoundPda(currentRoundId))]]
    /\ UNCHANGED <<currentRoundId, customDeployAmount, roundAcct, minerAcct, prev, upd>>

\* await connection.getAccountInfo(newRoundPda) returns, or throws.
DeployRoundFetched(p, throws) ==
    /\ call[p].pc = "awaitRound"
    /\ LET c == call[p]
           status == roundAcct[c.roundId]
       IN  call' = [call EXCEPT ![p] =
             IF throws THEN DeployCatch(c, NetworkFailure)
             ELSE IF status = "absent"
             THEN [c EXCEPT !.pc = "done", !.result = "undefined",
                            !.newRoundAccountInfo = status,
                            !.logged = Append(@, "deploy skipped: round not found")]
             ELSE IF roundNotInitialized(status)
             THEN [c EXCEPT !.pc = "done", !.result = "undefined",
                            !.newRoundAccountInfo = status,
                            !.logged = Append(@, "deploy skipped: round not initialized")]
             ELSE [c EXCEPT !.pc = "awaitMiner",
                            !.newRoundAccountInfo = status,
                            !.fetched = Append(@, getMinerPda)]]
    /\ UNCHANGED <<currentRoundId, customDeployAmount, roundAcct, minerAcct, prev, upd>>

\* Variant: the cycle gives up when another submission is outstanding.
DeploySubmitIfAlone(c, minerRoundId, minerCheckpointId) ==
    IF \E q \in Calls : call[q].pc = "awaitSend"
    THEN [c EXCEPT !.pc = "done", !.result = "undefined"]
    ELSE [c EXCEPT !.pc = "awaitSend",
                   !.minerRoundId = minerRoundId,
                   !.minerCheckpointId = minerCheckpointId,
                   !.logged = (IF WarnsDirty(c.roundId, minerRoundId, minerCheckpointId)
                               THEN Append(@, "warning: state dirty") ELSE @)
                              \o <<"sending deploy tx">>,
                   !.sent = Append(@, BuildDeployTransaction(
                                c.roundId, minerRoundId, minerCheckpointId,
                                c.stake, c.targets))]

\* Variant: the round id is read from the shared state again after the fetches.
DeploySubmitRereadsRound(c, minerRoundId, minerCheckpointId) ==
    [c EXCEPT !.pc = "awaitSend",
              !.minerRoundId = minerRoundId,
              !.minerCheckpointId = minerCheckpointId,
              !.logged = (IF WarnsDirty(currentRoundId, minerRoundId, minerCheckpointId)
                          THEN Append(@, "warning: state dirty") ELSE @)
                         \o <<"sending deploy tx">>,
              !.sent = Append(@, BuildDeployTransaction(
                           currentRoundId, minerRoundId, minerCheckpointId,
                           c.stake, c.targets))]

\* The synchronous stretch from the miner snapshot to the submission.
DeploySubmit(c, minerRoundId, minerCheckpointId) ==
    [c EXCEPT !.pc = "awaitSend",
              !.minerRoundId = minerRoundId,
              !.minerCheckpointId = minerCheckpointId,
              !.logged = (IF WarnsDirty(c.roundId, minerRoundId, minerCheckpointId)
                          THEN Append(@, "warning: state dirty") ELSE @)
                         \o <<"sending deploy tx">>,
              !.sent = Append(@, BuildDeployTransaction(
                           c.roundId, minerRoundId, minerCheckpointId,
                           c.stake, c.targets))]

\* await connection.getAccountInfo(minerPda) returns, or throws.
DeployMinerFetched(p, throws) ==
    /\ call[p].pc = "awaitMiner"
    /\ LET c == [call[p] EXCEPT !.minerAccountInfo = minerAcct]
       IN  call' = [call EXCEPT ![p] =
             IF throws THEN DeployCatch(call[p], NetworkFailure)
             ELSE IF minerAcct.kind = "absent" THEN DeploySubmit(c, 0, 0)
             ELSE IF parseMiner(minerAcct) = "throws" THEN DeployCatch(c, DecodeFailure)
             ELSE DeploySubmit(c, minerAcct.round_id, minerAcct.checkpoint_id)]
    /\ UNCHANGED <<currentRoundId, customDeployAmount, roundAcct, minerAcct, prev, upd>>

\* await sendAndConfirmTransaction(...) resolves: the transaction landed.
DeployConfirmed(p) ==
    /\ call[p].pc = "awaitSend"
    /\ call' = [call EXCEPT ![p].pc = "done", ![p].result = "undefined",
                            ![p].logged = Append(@, "deploy successful")]
    /\ minerAcct' = RemoteApply(minerAcct, call[p].sent[Len(call[p].sent)])
    /\ UNCHANGED <<currentRoundId, customDeployAmount, roundAcct, prev, upd>>

\* await sendAndConfirmTransaction(...) rejects with e.
DeployRejected(p, e) ==
    /\ call[p].pc = "awaitSend"
    /\ call' = [call EXCEPT ![p] = DeployCatch(call[p], e)]
    /\ UNCHANGED <<currentRoundId, customDeployAmount, roundAcct, minerAcct, prev, upd>>

\* The one-second timer of the catch block fires; getLogs is called.
DeployTimerFired(p) ==
    /\ call[p].pc = "sleep"
    /\ call' = [call EXCEPT ![p].pc = "awaitLogs", ![p].logReads = @ + 1]
    /\ UNCHANGED <<currentRoundId, customDeployAmount, roundAcct, minerAcct, prev, upd>>

\* Mutant: the report is made inside the inner try, after getLogs, so a
\* throwing getLogs skips it.
logsFailedNoReport(c) ==
    [c EXCEPT !.pc = "done", !.result = "undefined",
              !.logged = Append(@, "error fetching logs")]

\* The inner catch of the catch block: the lookup's own error is logged and
\* the original failure is reported without logs.
logsFailed(c) ==
    Fatal([c EXCEPT !.logged = Append(@, "error fetching logs")], c.e, "undefined")

\* await connection.getLogs(...) returns logs, or throws.
DeployLogsFetched(p, throws) ==
    /\ call[p].pc = "awaitLogs"
    /\ LET c == call[p]
       IN  call' = [call EXCEPT ![p] =
             IF throws THEN logsFailed(c) ELSE Fatal(c, c.e, "recovered")]
    /\ UNCHANGED <<currentRoundId, customDeployAmount, roundAcct, minerAcct, prev, upd>>

\* ---------------------------------------------------------- sendCheckpointTx

\* sendCheckpointTx(roundToCheckpoint, connection, signer), up to the await.
CheckpointBegin(p, r, sg) ==
    /\ call[p].pc = "idle"
    /\ LET c == [call[p] EXCEPT !.op = "checkpoint", !.roundToCheckpoint = r,
                                !.signer = sg]
       IN  call' = [call EXCEPT ![p] =
             IF ~sg
             THEN [c EXCEPT !.pc = "done", !.result = "false",
                            !.logged = Append(@, "checkpoint FAILED: no signer")]
             ELSE [c EXCEPT !.pc = "awaitCheckpoint",
                            !.sent = Append(@, <<CheckpointIx(r)>>)]]
    /\ UNCHANGED <<currentRoundId, customDeployAmount, roundAcct, minerAcct, prev, upd>>

\* await sendAndConfirmTransaction(...) resolves.
CheckpointConfirmed(p) ==
    /\ call[p].pc = "awaitCheckpoint"
    /\ call' = [call EXCEPT ![p].pc = "done", ![p].result = "true",
                            ![p].logged = Append(@, "checkpoint successful")]
    /\ minerAcct' = RemoteApply(minerAcct, call[p].sent[Len(call[p].sent)])
    /\ UNCHANGED <<currentRoundId, customDeployAmount, roundAcct, prev, upd>>

\* The catch block of sendCheckpointTx.
CheckpointCatch(c, e) ==
    IF isBenignDuplicate(e)
    THEN [c EXCEPT !.pc = "done", !.e = e, !.result = "true",
                   !.logged = Append(@, "checkpoint already done or not needed")]
    ELSE [c EXCEPT !.pc = "done", !.e = e, !.result = "false",
                   !.fatal = Append(@, FatalReport(e, "undefined"))]

\* await sendAndConfirmTransaction(...) rejects with e.
CheckpointRejected(p, e) ==
    /\ call[p].pc = "awaitCheckpoint"
    /\ call' = [call EXCEPT ![p] = CheckpointCatch(call[p], e)]
    /\ UNCHANGED <<currentRoundId, customDeployAmount, roundAcct, minerAcct, prev, upd>>

\* -------------------------------------------------------------- environment

\* The round watcher advances the shared current round id: the next round
\* opens once the current one has run.
AdvanceRound ==
    /\ currentRoundId < MaxRound
    /\ roundAcct[currentRoundId] = "ok"
    /\ currentRoundId' = currentRoundId + 1
    /\ UNCHANGED <<customDeployAmount, roundAcct, minerAcct, call, prev, upd>>

\* The remote program creates, then initializes, the current round's account.
InitializeRound(status) ==
    /\ roundAcct[currentRoundId] # "ok"
    /\ status # "absent"
    /\ roundAcct[currentRoundId] # "absent" => status = "ok"
    /\ roundAcct' = [roundAcct EXCEPT ![currentRoundId] = status]
    /\ UNCHANGED <<currentRoundId, customDeployAmount, minerAcct, call, prev, upd>>

\* ------------------------------------------------------------ specification

Next ==
    \/ \E p \in Calls, tg \in TargetChoices, sg \in BOOLEAN :
           Sequential(p) /\ DeployBegin(p, tg, sg)
    \/ \E p \in Calls, throws \in BOOLEAN : DeployRoundFetched(p, throws)
    \/ \E p \in Calls, throws \in BOOLEAN : DeployMinerFetched(p, throws)
    \/ \E p \in Calls : DeployConfirmed(p)
    \/ \E p \in Calls, e \in SubmitFailures : DeployRejected(p, e)
    \/ \E p \in Calls : DeployTimerFired(p)
    \/ \E p \in Calls, throws \in BOOLEAN : DeployLogsFetched(p, throws)
    \/ \E p \in Calls, r \in RoundIds, sg \in BOOLEAN :
           Sequential(p) /\ CheckpointBegin(p, r, sg)
    \/ \E p \in Calls : CheckpointConfirmed(p)
    \/ \E p \in Calls, e \in SubmitFailures : CheckpointRejected(p, e)
    \/ AdvanceRound
    \/ \E status \in RoundStatuses : InitializeRound(status)
    \/ \E p \in Calls : Return(p)

Spec == Init /\ [][Next]_vars

\* ------------------------------------------------- overlapping invocations

\* ------------------------------------------------------ updater (update.mjs)

deployVars == <<currentRoundId, customDeployAmount, roundAcct, minerAcct, call, prev>>

\* Variant: the top-level catch starts the application anyway.
UpdCatchRestart(u, message) == [u EXCEPT !.pc = "running", !.failure = message, !.launches = @ + 1]

\* checkForUpdate().catch(err => { console.error(...); process.exit(1) })
UpdCatch(u, message) == [u EXCEPT !.pc = "exited", !.failure = message, !.exitCode = 1]

\* restartApp(): spawn the application; the updater lives until it closes.
restartApp(u) == [u EXCEPT !.pc = "running", !.launches = @ + 1]

\* Steps 3 and 4 of checkForUpdate: read the local package, compare, act.
\* remotePackage.version on null throws a TypeError.
CompareAndAct(u) ==
    IF ~u.remotePackage.present THEN UpdCatch(u, "TypeError")
    ELSE LET u1 == [u EXCEPT !.cmp = Append(@, CompareEntry(u.installedVersion,
                                                          u.remotePackage.version))]
         IN  IF compareVersions(u.installedVersion, u.remotePackage.version)
             THEN [u1 EXCEPT !.pc = "awaitTree"]
             ELSE restartApp(u1)

\* Object.assign(remotePackage, parsed): a TypeError on a null target.
AssignFallback(u, parsed) ==
    IF ~u.remotePackage.present THEN UpdCatch(u, "TypeError")
    ELSE CompareAndAct([u EXCEPT !.remotePackage = Package(parsed.version)])

\* The for loop of performUpdate from item i up to its next await, then
\* execSync('npm install') and restartApp() once the loop is over.
RECURSIVE Advance(_, _, _)
Advance(u, i, installOk) ==
    IF i > Len(u.tree)
    THEN IF installOk THEN restartApp([u EXCEPT !.idx = i, !.installed = TRUE])
         ELSE UpdCatch([u EXCEPT !.idx = i], "npm install failed")
    ELSE LET item == u.tree[i]
         IN  IF isIgnored(item.path) THEN Advance(u, i + 1, installOk)
             ELSE IF item.type = "tree"
             THEN Advance([u EXCEPT !.mkdirs = @ \cup {item.path}], i + 1, installOk)
             ELSE IF item.type = "blob"
             THEN [u EXCEPT !.pc = "awaitDownload", !.idx = i]
             ELSE Advance(u, i + 1, installOk)

\* checkForUpdate() is called: up to the fetch of the repository info.
UpdStart ==
    /\ upd.pc = "start"
    /\ upd' = [upd EXCEPT !.pc = "awaitRepo"]
    /\ UNCHANGED deployVars

\* await fetchJson(repository) returns the info, null (404), or throws.
UpdRepoFetched(outcome) ==
    /\ upd.pc = "awaitRepo"
    /\ upd' = IF outcome = "throws" THEN UpdCatch(upd, "Request failed")
              ELSE IF outcome = "null" THEN UpdCatch(upd, "Repository not found or private.")
              ELSE [upd EXCEPT !.pc = "awaitRaw"]
    /\ UNCHANGED deployVars

\* await fetchJson(raw package.json) returns a package, null (404), or throws.
UpdRawFetched(outcome, version) ==
    /\ upd.pc = "awaitRaw"
    /\ upd' = IF outcome = "throws" THEN UpdCatch(upd, "Request failed")
              ELSE IF outcome = "null"
              THEN [upd EXCEPT !.pc = "awaitApi", !.rawResult = "null"]
              ELSE CompareAndAct([upd EXCEPT !.rawResult = "package",
                                             !.remotePackage = Package(version)])
    /\ UNCHANGED deployVars

\* await fetchJson(contents endpoint) returns an entry with content, an
\* entry without, null (404), or throws.
UpdApiFetched(outcome, version) ==
    /\ upd.pc = "awaitApi"
    /\ upd' = IF outcome = "throws" THEN UpdCatch(upd, "Request failed")
              ELSE IF outcome = "content"
              THEN AssignFallback([upd EXCEPT !.apiPkg = Package(version)], Package(version))
              ELSE CompareAndAct(upd)
    /\ UNCHANGED deployVars

\* await fetchJson(tree endpoint) returns a tree, an object without one,
\* null (404), or throws.
UpdTreeFetched(outcome, tree, installOk) ==
    /\ upd.pc = "awaitTree"
    /\ upd' = IF outcome = "throws" THEN UpdCatch(upd, "Request failed")
              ELSE IF outcome \in {"null", "notree"}
              THEN UpdCatch(upd, "Failed to fetch file tree.")
              ELSE Advance([upd EXCEPT !.tree = tree], 1, installOk)
    /\ UNCHANGED deployVars

\* await downloadFile(...) resolves, or rejects (status not 200, request error).
UpdDownloaded(outcome, installOk) ==
    /\ upd.pc = "awaitDownload"
    /\ upd' = IF outcome = "status" THEN UpdCatch(upd, "Failed to download")
              ELSE IF outcome = "error" THEN UpdCatch(upd, "request error")
              ELSE Advance([upd EXCEPT !.downloaded = Append(@, upd.tree[upd.idx].path)],
                           upd.idx + 1, installOk)
    /\ UNCHANGED deployVars

\* subprocess.on('close', code => process.exit(code))
UpdAppClosed(code) ==
    /\ upd.pc = "running"
    /\ upd' = [upd EXCEPT !.pc = "exited", !.exitCode = code]
    /\ UNCHANGED deployVars

\* The updater alone: the deploy module is not running.
InitUpdate ==
    /\ currentRoundId = 1
    /\ customDeployAmount \in StakeChoices
    /\ roundAcct = [r \in Rounds |-> "absent"]
    /\ minerAcct = [kind |-> "absent", round_id |-> 0, checkpoint_id |-> 0]
    /\ call = [p \in Calls |-> IdleCall]
    /\ prev = NoPrev
    /\ \E version \in Versions : upd = NotStarted(version)

NextUpdate ==
    \/ UpdStart
    \/ \E outcome \in {"ok", "null", "throws"} : UpdRepoFetched(outcome)
    \/ \E outcome \in {"package", "null", "throws"}, version \in Versions :
           UpdRawFetched(outcome, version)
    \/ \E outcome \in {"content", "nocontent", "null", "throws"}, version \in Versions :
           UpdApiFetched(outcome, version)
    \/ \E outcome \in {"tree", "notree", "null", "throws"}, tree \in UpdTrees,
          installOk \in BOOLEAN : UpdTreeFetched(outcome, tree, installOk)
    \/ \E outcome \in {"ok", "status", "error"}, installOk \in BOOLEAN :
           UpdDownloaded(outcome, installOk)
    \/ \E code \in AppExitCodes : UpdAppClosed(code)

SpecUpdate == InitUpdate /\ [][NextUpdate]_vars

\* compareVersions on its own: one call, then the call with the arguments
\* exchanged.
CompareCall(local, remote) ==
    /\ upd.pc = "start"
    /\ upd.cmp = <<>>
    /\ upd' = [upd EXCEPT !.cmp = Append(@, CompareEntry(local, remote))]
    /\ UNCHANGED deployVars

CompareExchanged ==
    /\ upd.pc = "start"
    /\ Len(upd.cmp) = 1
    /\ upd' = [upd EXCEPT !.cmp = Append(@, CompareEntry(upd.cmp[1].remote, upd.cmp[1].local))]
    /\ UNCHANGED deployVars

NextCompare ==
    \/ \E local \in Versions, remote \in Versions : CompareCall(local, remote)
    \/ CompareExchanged

SpecCompare == InitUpdate /\ [][NextCompare]_vars

\* ------------------------------------------- the bet encoder on its own

\* The longest selection encoded.
MaxEncLen == 3

\* Target ids: below the range, its two ends, above the range.
EncIds == {0, 1, 25, 26}

\* Non-empty selections (duplicates and out-of-range ids included).
EncTargets == UNION { [1..n -> EncIds] : n \in 1..MaxEncLen }

\* customDeployAmount in tenths of the smallest unit: nothing, a fraction
\* over 50 units, exactly 100 units, 257 units (two non-zero bytes).
EncStakes == {0, 505, 1000, 2570}

Range(seq) == {seq[i] : i \in 1..Len(seq)}

\* b is a permutation of a.
IsPermutation(a, b) ==
    /\ Len(a) = Len(b)
    /\ \A x \in Range(a) \cup Range(b) :
           Cardinality({i \in 1..Len(a) : a[i] = x})
               = Cardinality({i \in 1..Len(b) : b[i] = x})

InitEnc ==
    /\ currentRoundId = MaxRound
    /\ customDeployAmount \in EncStakes
    /\ roundAcct = [r \in Rounds |-> "ok"]
    /\ minerAcct \in { m \in MinerAccounts :
                          \/ m.kind = "absent"
                          \/ m.kind = "record" /\ m.round_id = MaxRound - 1
                                               /\ m.checkpoint_id = 0 }
    /\ call = [p \in Calls |-> IdleCall]
    /\ prev = NoPrev
    /\ upd = NotStarted(<<"1", DOT, "0">>)

\* sendDeployTx(tg, ...) with both account reads answered at once: the cycle
\* from its guards to the submission, on the selection tg.
EncodeDeploy(p, tg) ==
    /\ call[p].pc = "idle"
    /\ ~noTargets(tg)
    /\ LET c == [call[p] EXCEPT !.op = "deploy", !.targets = tg, !.signer = TRUE,
                                !.roundId = currentRoundId,
                                !.stake = customDeployAmount,
                                !.newRoundAccountInfo = roundAcct[currentRoundId],
                                !.minerAccountInfo = minerAcct,
                                !.fetched = <<getRoundPda(currentRoundId), getMinerPda>>]
       IN  call' = [call EXCEPT ![p] =
                        DeploySubmit(c, minerAcct.round_id, minerAcct.checkpoint_id)]
    /\ UNCHANGED <<currentRoundId, customDeployAmount, roundAcct, minerAcct, prev, upd>>

\* One selection is encoded, then a permutation of it.
NextEnc ==
    \/ \E tg \in EncTargets : EncodeDeploy(1, tg)
    \/ \E f \in Permutations(1..Len(call[1].targets)) :
           /\ call[1].pc = "awaitSend"
           /\ EncodeDeploy(2, [i \in 1..Len(call[1].targets) |-> call[1].targets[f[i]]])

SpecEnc == InitEnc /\ [][NextEnc]_vars

\* The program points at which an invocation is suspended on the network or
\* on the timer.
SuspendedPcs == {"awaitRound", "awaitMiner", "awaitSend", "sleep", "awaitLogs",
                 "awaitCheckpoint"}

\* A caller that does not wait: it starts a second invocation while the
\* first one is suspended.
Overlapping(p) == p = 2 /\ call[p].pc = "idle" /\ call[1].pc \in SuspendedPcs

\* Deploy cycles under a caller that may overlap two of them.
NextOverlap ==
    \/ \E tg \in TargetChoices, sg \in BOOLEAN : Sequential(1) /\ DeployBegin(1, tg, sg)
    \/ \E tg \in TargetChoices, sg \in BOOLEAN : Overlapping(2) /\ DeployBegin(2, tg, sg)
    \/ \E p \in Calls, throws \in BOOLEAN : DeployRoundFetched(p, throws)
    \/ \E p \in Calls, throws \in BOOLEAN : DeployMinerFetched(p, throws)
    \/ \E p \in Calls : DeployConfirmed(p)
    \/ \E p \in Calls, e \in SubmitFailures : DeployRejected(p, e)
    \/ \E p \in Calls : DeployTimerFired(p)
    \/ \E p \in Calls, throws \in BOOLEAN : DeployLogsFetched(p, throws)
    \/ AdvanceRound
    \/ \E status \in RoundStatuses : InitializeRound(status)

SpecOverlap == Init /\ [][NextOverlap]_vars

\* ------------------------------------------------------------------- claims


KindCount(transaction, kind) ==
    Cardinality({i \in 1..Len(transaction) : transaction[i].kind = kind})

Kinds(transaction) == [i \in 1..Len(transaction) |-> transaction[i].kind]

\* The invocation in slot p is a deploy cycle that has read the miner account
\* and found a decodable record in it.
SawRecord(p) ==
    call[p].op = "deploy" /\ call[p].minerAccountInfo.kind = "record"

\* The invocation that returned last was a deploy cycle for the round the
\* cycle in slot p works on, and its submission landed.
FollowsLandedDeploy(p) ==
    /\ call[p].op = "deploy"
    /\ prev.op = "deploy"
    /\ prev.outcome = "landed"
    /\ prev.roundId = call[p].roundId

\* C1 as stated: a deploy cycle that follows a landed deploy cycle for the
\* same round R submits no deploy instruction for round R.
C1_Original ==
    \A p \in Calls :
        FollowsLandedDeploy(p) =>
            \A i \in 1..Len(call[p].sent) :
                \A j \in 1..Len(call[p].sent[i]) :
                    LET ix == call[p].sent[i][j]
                    IN  ~(ix.kind = "deploy" /\ RoundOf(ix) = call[p].roundId)

\* C1 amended: a deploy cycle that follows a landed deploy cycle for the same
\* round R reads a miner record with round_id = R and then submits again: one
\* transaction, with exactly one deploy instruction, for round R, and no
\* checkpoint instruction.
C1_SecondCycleDeploysAgain ==
    \A p \in Calls :
        (FollowsLandedDeploy(p) /\ call[p].minerAccountInfo.kind # "unset") =>
            /\ call[p].minerAccountInfo.kind = "record"
            /\ call[p].minerAccountInfo.round_id = call[p].roundId
            /\ Len(call[p].sent) = 1
            /\ LET tx == call[p].sent[1]
               IN  /\ KindCount(tx, "deploy") = 1
                   /\ KindCount(tx, "checkpoint") = 0
                   /\ RoundOf(tx[Len(tx)]) = call[p].roundId

\* C1 witness: the second cycle has submitted while the record it read is
\* unsettled (checkpoint_id # round_id = R).
C1_Witness ==
    \E p \in Calls :
        /\ FollowsLandedDeploy(p)
        /\ call[p].pc = "awaitSend"
        /\ call[p].minerAccountInfo.checkpoint_id # call[p].roundId

\* C2: a cycle that read a miner record with checkpoint_id # round_id and
\* round_id < R submits one transaction holding exactly one checkpoint
\* instruction, which names the account of round_id (not of R) and comes
\* before the deploy instruction, which names the account of R.
C2_DirtyEligibleCheckpointsStaleRound ==
    \A p \in Calls :
        LET c == call[p]
            m == c.minerAccountInfo
        IN  (SawRecord(p) /\ m.checkpoint_id # m.round_id /\ m.round_id < c.roundId) =>
                /\ Len(c.sent) = 1
                /\ KindCount(c.sent[1], "checkpoint") = 1
                /\ KindCount(c.sent[1], "deploy") = 1
                /\ \A i \in 1..Len(c.sent[1]) :
                       c.sent[1][i].kind = "checkpoint" =>
                           /\ RoundOf(c.sent[1][i]) = m.round_id
                           /\ RoundOf(c.sent[1][i]) # c.roundId
                           /\ \E j \in (i + 1)..Len(c.sent[1]) :
                                  /\ c.sent[1][j].kind = "deploy"
                                  /\ RoundOf(c.sent[1][j]) = c.roundId

\* C2 witness: R = 2 and the record {round_id: 1, checkpoint_id: 0}.
C2_Witness ==
    \E p \in Calls :
        /\ SawRecord(p)
        /\ call[p].pc = "awaitSend"
        /\ call[p].roundId = 2
        /\ call[p].minerAccountInfo.round_id = 1
        /\ call[p].minerAccountInfo.checkpoint_id = 0

\* The kinds of a deploy transaction, in the order the design fixes.
ExpectedKinds(needsCheckpoint, feePositive) ==
    <<"computeLimit", "computePrice">>
    \o (IF needsCheckpoint THEN <<"checkpoint">> ELSE <<>>)
    \o (IF feePositive THEN <<"transfer">> ELSE <<>>)
    \o <<"deploy">>

\* C3: every transaction a deploy cycle submits is: compute-budget limit,
\* compute-budget price, the checkpoint iff the record read is unsettled with
\* round_id < R, the fee transfer iff the fee is positive, and the deploy
\* instruction, once and last.
C3_InstructionOrder ==
    \A p \in Calls :
        LET c == call[p]
            m == c.minerAccountInfo
        IN  (c.op = "deploy" /\ c.sent # <<>>) =>
                /\ Len(c.sent) = 1
                /\ Kinds(c.sent[1]) =
                       ExpectedKinds(
                           m.checkpoint_id # m.round_id /\ m.round_id < c.roundId,
                           c.stake * Len(c.targets) >= FEE_DIVISOR * TENTHS)

\* C3 witness: a submitted transaction with all five instructions.
C3_Witness ==
    \E p \in Calls :
        /\ call[p].op = "deploy"
        /\ call[p].sent # <<>>
        /\ Len(call[p].sent[1]) = 5

\* C4: a cycle that read a record with checkpoint_id = round_id, or found no
\* miner account, submits its transaction with no checkpoint instruction and
\* the deploy instruction for R, and logs no warning, whatever R is.
C4_CleanSubmitsWithoutCheckpoint ==
    \A p \in Calls :
        LET c == call[p]
            m == c.minerAccountInfo
        IN  (c.op = "deploy"
             /\ (m.kind = "absent"
                 \/ (m.kind = "record" /\ m.checkpoint_id = m.round_id))) =>
                /\ Len(c.sent) = 1
                /\ KindCount(c.sent[1], "checkpoint") = 0
                /\ c.sent[1][Len(c.sent[1])].kind = "deploy"
                /\ RoundOf(c.sent[1][Len(c.sent[1])]) = c.roundId
                /\ "warning: state dirty" \notin Range(c.logged)

\* C4 witness: R = 2 and the record {round_id: 1, checkpoint_id: 1}.
C4_Witness ==
    \E p \in Calls :
        /\ SawRecord(p)
        /\ call[p].pc = "awaitSend"
        /\ call[p].roundId = 2
        /\ call[p].minerAccountInfo.round_id = 1
        /\ call[p].minerAccountInfo.checkpoint_id = 1

\* C5: a cycle that read a record with checkpoint_id # round_id and
\* round_id >= R logs a warning and submits its transaction with no
\* checkpoint instruction and the deploy instruction for R.
C5_DirtyIneligibleWarnsAndDeploys ==
    \A p \in Calls :
        LET c == call[p]
            m == c.minerAccountInfo
        IN  (SawRecord(p) /\ m.checkpoint_id # m.round_id /\ m.round_id >= c.roundId) =>
                /\ Len(c.sent) = 1
                /\ KindCount(c.sent[1], "checkpoint") = 0
                /\ c.sent[1][Len(c.sent[1])].kind = "deploy"
                /\ RoundOf(c.sent[1][Len(c.sent[1])]) = c.roundId
                /\ "warning: state dirty" \in Range(c.logged)

\* C5 witness: R = 2 and the record {round_id: 2, checkpoint_id: 1}.
C5_Witness ==
    \E p \in Calls :
        /\ SawRecord(p)
        /\ call[p].pc = "awaitSend"
        /\ call[p].roundId = 2
        /\ call[p].minerAccountInfo.round_id = 2
        /\ call[p].minerAccountInfo.checkpoint_id = 1

\* The failure's logs or its message contain the benign-duplicate marker.
MentionsMarker(e) ==
    \/ \E i \in 1..Len(e.logs) : Includes(e.logs[i], BenignMarker)
    \/ Includes(e.message, BenignMarker)

\* C6 as stated: a deploy cycle whose submission fails with the
\* benign-duplicate marker in the failure's logs or message ends without a
\* call of the fatal-error handler.
C6_BenignDeployFailureNotFatal ==
    \A p \in Calls :
        LET c == call[p]
        IN  (c.op = "deploy" /\ c.pc = "done" /\ c.sent # <<>>
             /\ c.e # NoFailure /\ MentionsMarker(c.e)) =>
                c.fatal = <<>>

\* The text sendCheckpointTx looks at holds the marker: some log line does
\* when logs are attached, the message does otherwise.
CarriesMarker(e) ==
    IF e.hasLogs
    THEN \E i \in 1..Len(e.logs) : Includes(e.logs[i], BenignMarker)
    ELSE Includes(e.message, BenignMarker)

C8_Original ==
    \A p \in Calls :
        LET c == call[p]
        IN  (c.op = "deploy" /\ c.minerAccountInfo.kind = "malformed") =>
                c.sent = <<>> /\ c.fatal = <<>>

\* C8 amended: a cycle that read a miner account whose bytes do not decode
\* ends at once, having submitted nothing and reported the decode failure to
\* the fatal-error handler, once.
C8_MalformedMinerIsFatal ==
    \A p \in Calls :
        LET c == call[p]
        IN  (c.op = "deploy" /\ c.minerAccountInfo.kind = "malformed") =>
                /\ c.pc = "done"
                /\ c.sent = <<>>
                /\ c.fatal = <<FatalReport(DecodeFailure, "undefined")>>

\* C8 witness: a cycle has read an undecodable miner account.
C8_Witness ==
    \E p \in Calls :
        /\ call[p].op = "deploy"
        /\ call[p].minerAccountInfo.kind = "malformed"
        /\ call[p].newRoundAccountInfo = "ok"

\* The invocation that returned last was a deploy cycle for the round the
\* cycle in slot p works on, and it was deferred.
FollowsDeferredCycle(p) ==
    /\ call[p].op = "deploy"
    /\ prev.op = "deploy"
    /\ prev.outcome = "deferred"
    /\ prev.roundId = call[p].roundId

\* C9: a cycle whose round account is absent, undecodable or without a
\* total-deployed field ends there: it fetched the round account only,
\* submitted nothing and made no fatal report.  A cycle that follows a
\* deferred one and finds the round account initialized goes on to fetch the
\* miner account.
C9_RoundNotReadyDefers ==
    \A p \in Calls :
        LET c == call[p]
        IN  /\ (c.op = "deploy"
                /\ c.newRoundAccountInfo \in {"absent", "malformed", "uninit"}) =>
                   /\ c.pc = "done"
                   /\ c.fetched = <<getRoundPda(c.roundId)>>
                   /\ c.sent = <<>>
                   /\ c.fatal = <<>>
            /\ (FollowsDeferredCycle(p) /\ c.newRoundAccountInfo = "ok") =>
                   c.fetched = <<getRoundPda(c.roundId), getMinerPda>>

\* C9 witness: after a deferred cycle, the next cycle for the same round
\* found the account initialized and has submitted.
C9_Witness ==
    \E p \in Calls :
        /\ FollowsDeferredCycle(p)
        /\ call[p].newRoundAccountInfo = "ok"
        /\ call[p].pc = "awaitSend"

\* C10: a deploy invocation without a signer, or with an empty selection,
\* is over at once: no account fetched, no log lookup, nothing submitted, no
\* fatal report.
C10_RejectedIsNoOp ==
    \A p \in Calls :
        LET c == call[p]
        IN  (c.op = "deploy" /\ (~c.signer \/ c.targets = <<>>)) =>
                /\ c.pc = "done"
                /\ c.fetched = <<>>
                /\ c.logReads = 0
                /\ c.sent = <<>>
                /\ c.fatal = <<>>

\* C10 witness: a signer is loaded and the selection is empty.
C10_Witness ==
    \E p \in Calls :
        /\ call[p].op = "deploy"
        /\ call[p].signer
        /\ call[p].targets = <<>>
        /\ call[p].pc = "done"

Outstanding(p) == call[p].op = "deploy" /\ call[p].pc = "awaitSend"

\* C12 as stated: two submissions for the same authority are never
\* outstanding together, whatever the caller does.
C12_Original == Cardinality({ p \in Calls : Outstanding(p) }) <= 1

\* C12: sendDeployTx holds no in-flight guard.  A cycle started while an
\* earlier one is suspended runs on its own: once it has read a miner
\* account that is absent or decodes, it has submitted exactly one
\* transaction, whatever the position of the other cycle; and before that
\* read it has submitted none.  Exclusivity is the caller's to provide.
C12_CyclesProceedIndependently ==
    \A p \in Calls :
        LET c == call[p]
        IN  c.op = "deploy" =>
                /\ (c.minerAccountInfo.kind \in {"absent", "record"}) => Len(c.sent) = 1
                /\ (c.minerAccountInfo.kind \in {"unset", "malformed"}) => c.sent = <<>>

\* C12 witness: the second cycle began while the first was suspended, and
\* both submissions are outstanding together.
C12_Witness ==
    /\ Outstanding(1)
    /\ Outstanding(2)
    /\ call[1].sent # <<>>
    /\ call[2].sent # <<>>

\* ------------------------------------------------------------- C13 .. C16

\* The width of the mask written by writeUInt32LE.
MASK_BITS == 32

\* The cycle in slot p has built and submitted its transaction.
Encoded(p) == call[p].op = "deploy" /\ call[p].sent # <<>>

\* The data of the deploy instruction the cycle submitted.
PayloadOf(c) == c.sent[1][IndexOfKind(c.sent[1], "deploy")].data

\* An unsigned little-endian integer read back from its bytes.
RECURSIVE ReadUIntLE(_)
ReadUIntLE(bytes) ==
    IF bytes = <<>> THEN 0 ELSE Head(bytes) + 256 * ReadUIntLE(Tail(bytes))

\* The mask the submitted payload carries (bytes 9-12).
MaskOf(c) == ReadUIntLE(SubSeq(PayloadOf(c), 10, 13))

\* Bit b of a non-negative integer.
RECURSIVE Bit(_, _)
Bit(value, b) == IF b = 0 THEN value % 2 = 1 ELSE Bit(value \div 2, b - 1)

PopCount(value) == Cardinality({ b \in 0..(MASK_BITS - 1) : Bit(value, b) })

\* Byte k (0 = least significant) of a non-negative integer.
RECURSIVE ByteAt(_, _)
ByteAt(value, k) == IF k = 0 THEN value % 256 ELSE ByteAt(value \div 256, k - 1)

\* C13: bit (id-1) of the mask is set if and only if some target of the
\* selection has that id and 1 <= id <= 25; with distinct in-range ids the
\* number of set bits is the length of the selection; ids outside [1,25]
\* set no bit and raise no error (the cycle still submits, nothing is
\* reported as fatal).
C13_MaskBits ==
    \A p \in Calls :
        Encoded(p) =>
            LET tg == call[p].targets
                mask == MaskOf(call[p])
            IN  /\ mask = createSquaresMask(tg)
                /\ \A b \in 0..(MASK_BITS - 1) :
                       Bit(mask, b) <=> \E i \in 1..Len(tg) :
                                           tg[i] = b + 1 /\ 1 <= tg[i] /\ tg[i] <= 25
                /\ ( /\ \A i \in 1..Len(tg) : 1 <= tg[i] /\ tg[i] <= 25
                     /\ \A i, j \in 1..Len(tg) : i # j => tg[i] # tg[j] )
                       => PopCount(mask) = Len(tg)
                /\ (\A i \in 1..Len(tg) : tg[i] < 1 \/ tg[i] > 25) => mask = 0
                /\ call[p].fatal = <<>>

\* C13 witness: ids 1, 25 and 26 were encoded (in some order); only bits 0
\* and 24 are set.
C13_Witness ==
    \E p \in Calls :
        /\ Encoded(p)
        /\ Range(call[p].targets) = {1, 25, 26}
        /\ MaskOf(call[p]) = 16777217

\* C14: a selection and a permutation of it, encoded with the same
\* configured stake, give the same bitmask and the same 13-byte payload.
C14_OrderIndependent ==
    \A p, q \in Calls :
        ( /\ Encoded(p)
          /\ Encoded(q)
          /\ call[p].stake = call[q].stake
          /\ IsPermutation(call[p].targets, call[q].targets) )
            => /\ MaskOf(call[p]) = MaskOf(call[q])
               /\ PayloadOf(call[p]) = PayloadOf(call[q])
               /\ Len(PayloadOf(call[p])) = 13

\* C14 witness: the same three distinct ids were encoded in two different
\* orders.
C14_Witness ==
    /\ Encoded(1)
    /\ Encoded(2)
    /\ call[1].targets # call[2].targets
    /\ IsPermutation(call[1].targets, call[2].targets)
    /\ Cardinality(Range(call[1].targets)) = 3

C16_PayloadLayout ==
    \A p \in Calls :
        Encoded(p) =>
            LET c == call[p]
                data == PayloadOf(c)
            IN  /\ Len(data) = 13
                /\ \A k \in 1..13 : data[k] \in 0..255
                /\ data[1] = 6
                /\ \A k \in 0..7 : data[2 + k] = ByteAt(c.stake \div TENTHS, k)
                /\ \A k \in 0..3 : data[10 + k] = ByteAt(createSquaresMask(c.targets), k)

\* C16 witness: a stake of 257 units (bytes 1, 1, 0, ...) on a selection
\* holding square 25 (mask byte 3 is 1).
C16_Witness ==
    \E p \in Calls :
        /\ Encoded(p)
        /\ call[p].stake = 2570
        /\ 25 \in Range(call[p].targets)
        /\ PayloadOf(call[p])[2] = 1
        /\ PayloadOf(call[p])[3] = 1
        /\ PayloadOf(call[p])[13] = 1

\* ------------------------------------------------------------------- C17

HexDigits == {"0", "1", "2", "3", "4", "5", "6", "7", "8", "9",
              "a", "b", "c", "d", "e", "f"}

\* The run of hex digits of text that starts at position i.
RECURSIVE DigitsFrom(_, _)
DigitsFrom(text, i) ==
    IF i > Len(text) \/ text[i] \notin HexDigits THEN <<>>
    ELSE <<text[i]>> \o DigitsFrom(text, i + 1)

\* The program error codes a text names: the digits after each "0x".
ErrorCodes(text) == { DigitsFrom(text, i + 1) : i \in { j \in 1..Len(text) : text[j] = CPE } }

\* C17: a finished sendCheckpointTx whose submission failed has returned
\* true, without a fatal report, only when the text it searched names the
\* program error code 0x1 exactly; on a failure naming only other codes
\* (0x10, 0x2) it has returned false and reported the failure as fatal.
C17_OnlyExactCodeIsBenign ==
    \A p \in Calls :
        LET c == call[p]
        IN  (c.op = "checkpoint" /\ c.pc = "done" /\ c.e # NoFailure) =>
                IF <<"1">> \in ErrorCodes(errorLogs(c.e))
                THEN c.result = "true" /\ c.fatal = <<>>
                ELSE c.result = "false" /\ c.fatal = <<FatalReport(c.e, "undefined")>>

\* ------------------------------------------------------------- C18 .. C20

\* C18: when the raw fetch of the remote package.json returned null and the
\* contents endpoint answered with the package, the update check has not
\* failed: the version comparison was made, against the version the
\* contents endpoint held.
C18_FallbackSuppliesVersion ==
    (upd.rawResult = "null" /\ upd.apiPkg.present) =>
        /\ upd.failure = "none"
        /\ Len(upd.cmp) = 1
        /\ upd.cmp[1].remote = upd.apiPkg.version

\* The non-ignored blobs of the tree fetched.
BlobsToDownload ==
    { upd.tree[i].path : i \in { j \in 1..Len(upd.tree) :
                                     upd.tree[j].type = "blob" /\ ~isIgnored(upd.tree[j].path) } }

Padded(v, i) == IF i <= Len(v) THEN v[i] ELSE 0

\* b is strictly greater than a, components compared left to right.
StrictlyGreater(b, a) ==
    \E i \in 1..Max(Len(a), Len(b)) :
        /\ Padded(b, i) > Padded(a, i)
        /\ \A j \in 1..(i - 1) : Padded(b, j) = Padded(a, j)

\* C20: compareVersions(local, remote) is true if and only if remote is
\* strictly greater than local, the numeric components compared left to
\* right and missing ones read as 0; it is false for equal versions; and
\* compareVersions(a, b), compareVersions(b, a) are never both true.
C20_StrictOrder ==
    /\ \A k \in 1..Len(upd.cmp) :
           LET c == upd.cmp[k]
           IN  /\ c.result <=> StrictlyGreater(c.v2, c.v1)
               /\ c.local = c.remote => ~c.result
    /\ \A k, m \in 1..Len(upd.cmp) :
           (upd.cmp[k].local = upd.cmp[m].remote /\ upd.cmp[k].remote = upd.cmp[m].local)
               => ~(upd.cmp[k].result /\ upd.cmp[m].result)

\* C20 witness: local "10" against remote "1.1" (a missing component, a
\* two-digit one), then the same two exchanged.
C20_Witness ==
    /\ Len(upd.cmp) = 2
    /\ upd.cmp[1].v1 = <<10>>
    /\ upd.cmp[1].v2 = <<1, 1>>
    /\ ~upd.cmp[1].result
    /\ upd.cmp[2].v1 = <<1, 1>>
    /\ upd.cmp[2].v2 = <<10>>
    /\ upd.cmp[2].result

\* ------------------------------------------------------------------- C21

\* path is an entry of the ignore list, or lies under one.
UnderIgnoreEntry(path) ==
    \E k \in 1..Len(IGNORE_LIST) :
        \/ path = IGNORE_LIST[k]
        \/ StartsWith(path, IGNORE_LIST[k] \o <<"/">>)

\* The for loop of performUpdate is over: "Update files downloaded
\* successfully." has been printed.
DownloadsReported ==
    /\ upd.cmp # <<>>
    /\ upd.cmp[1].result
    /\ upd.pc \in {"running", "exited"}
    /\ upd.idx = Len(upd.tree) + 1

\* C21: performUpdate never creates or overwrites a path that is, or lies
\* under, an entry of the ignore list; and once the downloads are reported
\* successful, every other blob of the remote tree has been downloaded.
C21_IgnoredKeptOthersDownloaded ==
    /\ \A path \in Range(upd.downloaded) \cup upd.mkdirs : ~UnderIgnoreEntry(path)
    /\ DownloadsReported =>
           \A i \in 1..Len(upd.tree) :
               (upd.tree[i].type = "blob" /\ ~UnderIgnoreEntry(upd.tree[i].path))
                   => upd.tree[i].path \in Range(upd.downloaded)

\* ------------------------------------------------------------------- C22

\* C22: in a cycle that has submitted, the round whose account was fetched
\* and validated, the round the miner's round_id was compared against for
\* the checkpoint (and for the warning), and the round whose account the
\* deploy instruction references are one round, whatever the shared
\* state's current round id has become meanwhile.
C22_OneRoundPerCycle ==
    \A p \in Calls :
        LET c == call[p]
        IN  (c.op = "deploy" /\ c.sent # <<>>) =>
                LET tx == c.sent[1]
                    R == c.fetched[1].round
                    dirty == c.minerRoundId # c.minerCheckpointId
                IN  /\ c.fetched[1] = getRoundPda(R)
                    /\ c.newRoundAccountInfo = "ok"
                    /\ RoundOf(tx[IndexOfKind(tx, "deploy")]) = R
                    /\ HasKind(tx, "checkpoint") <=> (dirty /\ c.minerRoundId < R)
                    /\ ("warning: state dirty" \in Range(c.logged))
                           <=> (dirty /\ ~(c.minerRoundId < R))

\* C22 witness: the current round id advanced while the cycle was suspended;
\* the miner's unsettled round is the cycle's round, so it is older than the
\* new current round only; the cycle has submitted.
C22_Witness ==
    \E p \in Calls :
        /\ call[p].op = "deploy"
        /\ call[p].sent # <<>>
        /\ currentRoundId > call[p].fetched[1].round
        /\ call[p].minerRoundId = call[p].fetched[1].round
        /\ call[p].minerRoundId # call[p].minerCheckpointId

\* ------------------------------------------------------------------- C23

\* C23: a checkpoint instruction submitted by either function, for a round,
\* is the instruction the other function builds for that round: the same
\* data byte (2), the same program, the same accounts in the same order
\* with the same signer and writable flags.
C23_SameCheckpointInstruction ==
    \A p \in Calls :
        LET c == call[p]
        IN  (c.sent # <<>> /\ HasKind(c.sent[1], "checkpoint")) =>
                LET ix == c.sent[1][IndexOfKind(c.sent[1], "checkpoint")]
                    other == IF c.op = "deploy" THEN CheckpointIx(RoundOf(ix))
                             ELSE DeployCheckpointIx(RoundOf(ix))
                IN  /\ ix.data = <<2>>
                    /\ ix.data = other.data
                    /\ ix.programId = other.programId
                    /\ Len(ix.keys) = Len(other.keys)
                    /\ \A k \in 1..Len(ix.keys) : ix.keys[k] = other.keys[k]
====
